---- MODULE Spec2Model ----
(***************************************************************************)
(* LogAnywhere: the shared record buffer, the per-provider buffer_loop     *)
(* tasks, the panic hook and Logger::init / Logger::log (src/src/lib.rs),  *)
(* with the LogProvider::send_log outcomes of src/src/providers.           *)
(***************************************************************************)
EXTENDS Naturals, Sequences, FiniteSets, TLC

\* ------------------------------------------------------------------ bounds
\* Number of log() calls the application threads make in all.
MaxLogs == 3

\* Number of faults (panics) in all.
MaxPanics == 2

\* Application threads that call the log macros and may panic.
Threads == {<<"thread", 1>>, <<"thread", 2>>}

\* Logger values built by Logger::new; each is handed to init() at most once
\* (init takes self by value).
Loggers == {"L1", "L2"}

NoLogger == "none"

\* The provider handles the program creates.
Providers == {"p1", "p2"}

\* Positions in a Logger's providers vector.
Slots == {1, 2}

\* The programs checked: which Loggers are built by Logger::new, the providers
\* vector each is given, and the application threads that run (fan-out to two
\* providers; one provider; no provider; two Loggers with one provider each).
ProgramList ==
  << [built |-> {"L1"}, threads |-> {<<"thread", 1>>},
      providers |-> [l \in Loggers |-> IF l = "L1" THEN <<"p1", "p2">> ELSE <<>>]],
     [built |-> {"L1"}, threads |-> Threads,
      providers |-> [l \in Loggers |-> IF l = "L1" THEN <<"p1">> ELSE <<>>]],
     [built |-> {"L1"}, threads |-> {<<"thread", 1>>},
      providers |-> [l \in Loggers |-> <<>>]],
     [built |-> {"L1", "L2"}, threads |-> {<<"thread", 1>>},
      providers |-> [l \in Loggers |-> IF l = "L1" THEN <<"p1">> ELSE <<"p2">>]] >>

Programs == {ProgramList[k] : k \in 1..Len(ProgramList)}

\* One buffer_loop task per (logger, index into its providers vector).
LoopIds == Loggers \X Slots

Procs == Threads \cup LoopIds

LoggerOf(i) == i[1]

\* Option<T>
None == <<>>

Some(x) == <<x>>

\* Display form of log::Level (record.level().to_string()); levels are 1..5.
LevelToString(lv) == <<"ERROR", "WARN", "INFO", "DEBUG", "TRACE">>[lv]

\* The log::Record a thread passes to its n-th log() call: the level, the
\* message and the presence of file and line vary with n.
EventOf(n) ==
  [level |-> ((n + 1) % 5) + 1,
   args |-> <<"a", "b", "c", "d", "e", "f">>[((n - 1) % 6) + 1],
   file |-> IF n % 2 = 1 THEN Some("main.rs") ELSE None,
   line |-> IF n % 2 = 1 THEN Some(n) ELSE None]

\* The PanicInfo values a fault carries.
PanicInfos == { [msg |-> "boom", file |-> "module.x", line |-> 10] }

\* PanicInfo's Display form (p.to_string()): message and location.
PanicToString(p) == <<"panicked at", p.msg, p.file, p.line>>

\* ------------------------------------------------------------------- state
VARIABLES
  level,                    \* level of each Logger (the LevelFilter given to new)
  enabledSeen,              \* history: the last enabled() call and what it returned
  built,                    \* the Loggers the program builds
  threads,                  \* the application threads the program runs
  providers,                \* providers of each Logger
  buf,                      \* log_buffer_records of each Logger
  is_panicking,             \* is_panicking of each Logger
  buffer_emptied_on_panic,  \* buffer_emptied_on_panic of each Logger
  hook,                     \* the Logger whose state the installed panic hook captured
  sink,                     \* the Logger registered by log::set_boxed_logger
  initResult,               \* what init() returned for each Logger
  pc,                       \* position of every thread and buffer_loop task
  messages,                 \* local `messages` of each buffer_loop
  hk,                       \* the hook closure a panicking thread or task runs
  fault,                    \* the PanicInfo of a panicking thread or task
  calls,                    \* history: the events each thread passed to log()
  received,                 \* history: the batches each provider's send_log got
  inflight,                 \* history: send_log calls of a loop not yet returned
  outcome,                  \* history: how the last send_log call of a loop ended
  slept                     \* history: whether a loop has completed a sleep

vars == <<level, enabledSeen, built, threads, providers, buf, is_panicking, buffer_emptied_on_panic,
          hook, sink, initResult, pc, messages, hk, fault, calls, received, inflight, outcome, slept>>

\* LogAnywhereRecord built by Logger::log; id names the append (thread, call
\* number) and is not a field of the program's record.
LogRecord(e, id) ==
  [level |-> LevelToString(e.level), message |-> e.args,
   file |-> e.file, line |-> e.line, id |-> id]

\* LogAnywhereRecord built by the panic hook.
PanicRecord(p, id) ==
  [level |-> "PANIC", message |-> PanicToString(p),
   file |-> Some(p.file), line |-> Some(p.line), id |-> id]

\* Mutant of Push: the record is inserted at the front.
Push_Front(b, r) == <<r>> \o b

\* Vec::push under the buffer lock.
Push(b, r) == Append(b, r)

\* Mutant of Taken: the drain returns the buffer without its first record.
Taken_SkipsFirst(b) == IF b = <<>> THEN b ELSE Tail(b)

\* mem::take under the buffer lock: the value moved out and the value left.
Taken(b) == b

\* Mutant of LeftByTake: the buffer is cloned, not taken.
LeftByTake_Copy(b) == b

LeftByTake(b) == <<>>

ProviderOf(i) == providers[i[1]][i[2]]

\* The loops init() spawns for Logger l: one per element of its providers.
LoopsOf(l) == {i \in LoopIds : LoggerOf(i) = l /\ i[2] <= Len(providers[l])}

\* log() calls made so far, faults so far.
NumLogs == Len(calls[<<"thread", 1>>]) + Len(calls[<<"thread", 2>>])

NumPanics == Cardinality({p \in Procs : fault[p] # None})

\* Mutant of GuardsHeld: the loop keeps records_guard alive over the send.
GuardsHeld_OverSend(pos) ==
  IF pos = "await" THEN {"log_buffer_records"} ELSE {}

\* The mutexes whose MutexGuard is alive while a thread or task rests at
\* position pos. Every guard of the program is a temporary of one statement
\* (records_guard ends with its block, the guards of the two `if` conditions
\* end with the condition, the hook's and log()'s guards end with their
\* statement), so none is alive between two steps.
GuardsHeld(pos) == {}

\* The Logger whose mutexes thread or task p locks at its position.
LockedLogger(p) ==
  IF pc[p] \in {"hook_set", "hook_push", "hook_wait"} THEN hk[p]
  ELSE IF p \in LoopIds THEN LoggerOf(p) ELSE sink

\* log_buffer_records.lock() of Logger l returns: no other guard is alive.
BufferLockFree(l) ==
  \A p \in Procs :
    LockedLogger(p) = l => "log_buffer_records" \notin GuardsHeld(pc[p])

\* LevelFilter as the log crate orders it: Off = 0, Error = 1, Warn = 2,
\* Info = 3, Debug = 4, Trace = 5.
LevelFilters == 0..5

\* Level as the log crate orders it: Error = 1 .. Trace = 5.
Levels == 1..5

\* Logger::new: empty buffer, both flags false; `level` is left to InitLevel.
InitState ==
  /\ \E prog \in Programs : /\ built = prog.built
                           /\ threads = prog.threads
                           /\ providers = prog.providers
  /\ buf = [l \in Loggers |-> <<>>]
  /\ is_panicking = [l \in Loggers |-> FALSE]
  /\ buffer_emptied_on_panic = [l \in Loggers |-> FALSE]
  /\ hook = NoLogger
  /\ sink = NoLogger
  /\ initResult = [l \in Loggers |-> "none"]
  /\ pc = [p \in Procs |-> IF p \in threads THEN "run" ELSE "unspawned"]
  /\ messages = [i \in LoopIds |-> <<>>]
  /\ hk = [p \in Procs |-> NoLogger]
  /\ fault = [p \in Procs |-> None]
  /\ calls = [t \in Threads |-> <<>>]
  /\ received = [p \in Providers |-> <<>>]
  /\ inflight = [i \in LoopIds |-> 0]
  /\ outcome = [i \in LoopIds |-> "none"]
  /\ slept = [i \in LoopIds |-> FALSE]
  /\ enabledSeen = None

\* Logger::new(providers, buffer_timing, LevelFilter::Info), the call of the
\* crate's documentation.
Init ==
  /\ InitState
  /\ level = [l \in Loggers |-> 3]

\* Mutant of SetBoxedLogger: a later call replaces the registered logger.
SetBoxedLogger_Overwrite(l) ==
  /\ sink' = l
  /\ initResult' = [initResult EXCEPT ![l] = "Ok"]

\* log::set_boxed_logger: the first call wins, later calls return SetLoggerError.
SetBoxedLogger(l) ==
  IF sink = NoLogger
    THEN /\ sink' = l
         /\ initResult' = [initResult EXCEPT ![l] = "Ok"]
    ELSE /\ sink' = sink
         /\ initResult' = [initResult EXCEPT ![l] = "Err"]

\* Logger::init: set_panic_hook, task::spawn(buffer_loop) per provider, then
\* set_boxed_logger with `?`.
CallInit(l) ==
  /\ l \in built
  /\ initResult[l] = "none"
  /\ hook' = l
  /\ pc' = [p \in Procs |-> IF p \in LoopsOf(l) THEN "take" ELSE pc[p]]
  /\ SetBoxedLogger(l)
  /\ UNCHANGED <<level, enabledSeen, built, threads, providers, buf, is_panicking, buffer_emptied_on_panic, messages, hk,
                 fault, calls, received, inflight, outcome, slept>>

\* Logger::log, reached through the registered sink.
CallLog(t) ==
  /\ pc[t] = "run"
  /\ sink # NoLogger
  /\ NumLogs < MaxLogs
  /\ BufferLockFree(sink)
  /\ buf' = [buf EXCEPT ![sink] =
               Push(@, LogRecord(EventOf(Len(calls[t]) + 1), <<t, Len(calls[t]) + 1>>))]
  /\ calls' = [calls EXCEPT ![t] = Append(@, EventOf(Len(calls[t]) + 1))]
  /\ UNCHANGED <<level, enabledSeen, built, threads, providers, is_panicking, buffer_emptied_on_panic, hook, sink, initResult,
                 pc, messages, hk, fault, received, inflight, outcome, slept>>

\* A thread or task p panics: the installed hook (if any) starts running on it.
EnterPanic(p, info) ==
  /\ NumPanics < MaxPanics
  /\ pc' = [pc EXCEPT ![p] = IF hook = NoLogger THEN "dead" ELSE "hook_set"]
  /\ hk' = [hk EXCEPT ![p] = hook]
  /\ fault' = [fault EXCEPT ![p] = Some(info)]

\* An application thread panics.
Panic(t, info) ==
  /\ pc[t] = "run"
  /\ EnterPanic(t, info)
  /\ UNCHANGED <<level, enabledSeen, built, threads, providers, buf, is_panicking, buffer_emptied_on_panic, hook, sink,
                 initResult, messages, calls, received, inflight, outcome, slept>>

\* panic hook: *is_panicking.lock().unwrap() = true
HookSetFlag(p) ==
  /\ pc[p] = "hook_set"
  /\ is_panicking' = [is_panicking EXCEPT ![hk[p]] = TRUE]
  /\ pc' = [pc EXCEPT ![p] = "hook_push"]
  /\ UNCHANGED <<level, enabledSeen, built, threads, providers, buf, buffer_emptied_on_panic, hook, sink, initResult, messages,
                 hk, fault, calls, received, inflight, outcome, slept>>

\* panic hook: log_buffer_records.lock().unwrap().push(anywhere_log)
HookPush(p) ==
  /\ pc[p] = "hook_push"
  /\ BufferLockFree(hk[p])
  /\ buf' = [buf EXCEPT ![hk[p]] = Push(@, PanicRecord(fault[p][1], <<p, 0>>))]
  /\ pc' = [pc EXCEPT ![p] = "hook_wait"]
  /\ UNCHANGED <<level, enabledSeen, built, threads, providers, is_panicking, buffer_emptied_on_panic, hook, sink, initResult,
                 messages, hk, fault, calls, received, inflight, outcome, slept>>

\* panic hook: while !*buffer_emptied_on_panic.lock().unwrap() {} ; the hook
\* returns only once it reads true.
HookReturn(p) ==
  /\ pc[p] = "hook_wait"
  /\ buffer_emptied_on_panic[hk[p]]
  /\ pc' = [pc EXCEPT ![p] = "dead"]
  /\ inflight' = [i \in LoopIds |-> IF i = p THEN 0 ELSE inflight[i]]
  /\ UNCHANGED <<level, enabledSeen, built, threads, providers, buf, is_panicking, buffer_emptied_on_panic, hook, sink,
                 initResult, messages, hk, fault, calls, received, outcome, slept>>

\* Mutant of AfterInvoke: the call is not awaited.
AfterInvoke_NoAwait == "chk_panic"

\* Position of a loop after it calls send_log: the .await on the call.
AfterInvoke == "await"

\* Mutant of AfterTake: send_log is called whatever the batch holds.
AfterTake_Always(batch) == AfterInvoke

\* Position of a loop after the drain: messages.len() > 0 decides whether
\* send_log is called.
AfterTake(batch) == IF Len(batch) > 0 THEN AfterInvoke ELSE "sleep"

\* buffer_loop: lock, mem::take, unlock; then, for a non-empty batch, the call
\* provider.send_log(messages). messages[i] stays the argument of the call
\* until it returns.
Take(i) ==
  /\ pc[i] = "take"
  /\ BufferLockFree(LoggerOf(i))
  /\ messages' = [messages EXCEPT ![i] = Taken(buf[LoggerOf(i)])]
  /\ buf' = [buf EXCEPT ![LoggerOf(i)] = LeftByTake(@)]
  /\ pc' = [pc EXCEPT ![i] = AfterTake(Taken(buf[LoggerOf(i)]))]
  /\ outcome' = [outcome EXCEPT ![i] = "none"]
  /\ IF AfterTake(Taken(buf[LoggerOf(i)])) = "sleep"
       THEN UNCHANGED <<received, inflight>>
       ELSE /\ received' = [received EXCEPT ![ProviderOf(i)] =
                               Append(@, Taken(buf[LoggerOf(i)]))]
            /\ inflight' = [inflight EXCEPT ![i] = @ + 1]
  /\ UNCHANGED <<level, enabledSeen, built, threads, providers, is_panicking, buffer_emptied_on_panic, hook,
                 sink, initResult, hk, fault, calls, slept>>

Ids(batch) == {batch[k].id : k \in 1..Len(batch)}

\* Mutant of BufAfterFailure: the failed batch is put back for a retry.
BufAfterFailure_Requeue(b, batch) == batch \o b

\* What a failed send_log leaves in the shared buffer: the Err arm only prints.
BufAfterFailure(b, batch) == b

\* send_log returns; ok = FALSE is the Err(e) arm (the request failed).
SendReturn(i, ok) ==
  /\ pc[i] = "await"
  /\ inflight' = [inflight EXCEPT ![i] = @ - 1]
  /\ outcome' = [outcome EXCEPT ![i] = IF ok THEN "none" ELSE "err"]
  /\ buf' = IF ok THEN buf
            ELSE [buf EXCEPT ![LoggerOf(i)] = BufAfterFailure(@, messages[i])]
  /\ messages' = [messages EXCEPT ![i] = <<>>]
  /\ pc' = [pc EXCEPT ![i] = "chk_panic"]
  /\ UNCHANGED <<level, enabledSeen, built, threads, providers, is_panicking, buffer_emptied_on_panic, hook,
                 sink, initResult, hk, fault, calls, received, slept>>

\* send_log panics (an unwrap() in the provider): the hook runs on the task.
SendPanic(i, info) ==
  /\ pc[i] = "await"
  /\ EnterPanic(i, info)
  /\ UNCHANGED <<level, enabledSeen, built, threads, providers, buf, is_panicking, buffer_emptied_on_panic, hook, sink,
                 initResult, messages, calls, received, inflight, outcome, slept>>

\* Mutant of AfterCheck: the loop never re-checks the buffer.
AfterCheck_NoRecheck(panicking) == "sleep"

\* Mutant of AfterCheck: the loop starts its next cycle without sleeping.
AfterCheck_NoSleep(panicking) == IF panicking THEN "chk_empty" ELSE "take"

\* Position of a loop after the is_panicking test: the buffer re-check, or the
\* sleep that ends the cycle.
AfterCheck(panicking) == IF panicking THEN "chk_empty" ELSE "sleep"

\* buffer_loop: if *is_panicking.lock().unwrap()
CheckPanic(i) ==
  /\ pc[i] = "chk_panic"
  /\ pc' = [pc EXCEPT ![i] = AfterCheck(is_panicking[LoggerOf(i)])]
  /\ UNCHANGED <<level, enabledSeen, built, threads, providers, buf, is_panicking, buffer_emptied_on_panic, hook, sink,
                 initResult, messages, hk, fault, calls, received, inflight,
                 outcome, slept>>

\* Mutant of EmptiedAfterCheck: the flag is assigned the outcome of the test.
EmptiedAfterCheck_Assign(emptied, b) == Len(b) = 0

\* buffer_emptied_on_panic after the loop's re-check: set to true when the
\* buffer is empty, left as it was otherwise.
EmptiedAfterCheck(emptied, b) == emptied \/ Len(b) = 0

\* buffer_loop: if log_buffer_records.lock().unwrap().len() == 0 then
\* *buffer_emptied_on_panic.lock().unwrap() = true. The write follows the
\* read with nothing read in between, so the two are one step.
CheckEmpty(i) ==
  /\ pc[i] = "chk_empty"
  /\ BufferLockFree(LoggerOf(i))
  /\ buffer_emptied_on_panic' =
       [buffer_emptied_on_panic EXCEPT ![LoggerOf(i)] = EmptiedAfterCheck(@, buf[LoggerOf(i)])]
  /\ pc' = [pc EXCEPT ![i] = "sleep"]
  /\ UNCHANGED <<level, enabledSeen, built, threads, providers, buf, is_panicking, hook, sink, initResult,
                 messages, hk, fault, calls, received, inflight, outcome, slept>>

\* buffer_loop: sleep(Duration::from_secs(*buffer_timing)).await completes and
\* the loop starts its next cycle.
Wake(i) ==
  /\ pc[i] = "sleep"
  /\ pc' = [pc EXCEPT ![i] = "take"]
  /\ slept' = [slept EXCEPT ![i] = TRUE]
  /\ UNCHANGED <<level, enabledSeen, built, threads, providers, buf, is_panicking, buffer_emptied_on_panic, hook, sink,
                 initResult, messages, hk, fault, calls, received, inflight, outcome>>

\* One step of a buffer_loop task that is not a return of send_log.
LoopStep(i) ==
  \/ Take(i)
  \/ CheckPanic(i)
  \/ CheckEmpty(i)
  \/ Wake(i)

\* One step of the panic hook running on thread or task p.
HookStep(p) ==
  \/ HookSetFlag(p)
  \/ HookPush(p)
  \/ HookReturn(p)

Next ==
  \/ \E l \in Loggers : CallInit(l)
  \/ \E t \in Threads : CallLog(t)
  \/ \E t \in Threads, info \in PanicInfos : Panic(t, info)
  \/ \E p \in Procs : HookStep(p)
  \/ \E i \in LoopIds : LoopStep(i)
  \/ \E i \in LoopIds, ok \in BOOLEAN : SendReturn(i, ok)
  \/ \E i \in LoopIds, info \in PanicInfos : SendPanic(i, info)

Spec == Init /\ [][Next]_vars

\* The executor schedules every spawned task and the operating system every
\* thread: a loop that can take a step takes it, a send_log call that can
\* return returns, a running hook advances.
Fairness ==
  /\ \A i \in LoopIds : WF_vars(LoopStep(i))
  /\ \A i \in LoopIds : WF_vars(\E ok \in BOOLEAN : SendReturn(i, ok))
  /\ \A p \in Procs : WF_vars(HookStep(p))

FairSpec == Init /\ [][Next]_vars /\ Fairness

\* The same program when no send_log call panics: every call returns.
NextSendsComplete ==
  \/ \E l \in Loggers : CallInit(l)
  \/ \E t \in Threads : CallLog(t)
  \/ \E t \in Threads, info \in PanicInfos : Panic(t, info)
  \/ \E p \in Procs : HookStep(p)
  \/ \E i \in LoopIds : LoopStep(i)
  \/ \E i \in LoopIds, ok \in BOOLEAN : SendReturn(i, ok)

SendsCompleteSpec == Init /\ [][NextSendsComplete]_vars /\ Fairness

\* Logger::enabled(&self, _metadata): the body is the literal `true`; neither
\* self.level nor the metadata's level is read.
Enabled(self_level, lv) == TRUE

\* A thread asks the registered logger whether level lv is enabled
\* (log_enabled!, or Log::enabled on log::logger()).
CallEnabled(t, lv) ==
  /\ pc[t] = "run"
  /\ sink # NoLogger
  /\ enabledSeen' = Some([level |-> lv, result |-> Enabled(level[sink], lv)])
  /\ UNCHANGED <<level, built, threads, providers, buf, is_panicking, buffer_emptied_on_panic,
                 hook, sink, initResult, pc, messages, hk, fault, calls, received,
                 inflight, outcome, slept>>

\* Logger::new with any LevelFilter.
InitAnyLevel ==
  /\ InitState
  /\ level \in {[l \in Loggers |-> f] : f \in LevelFilters}

\* The calls of the Log facade: init, log, enabled.
NextFacade ==
  \/ \E l \in Loggers : CallInit(l)
  \/ \E t \in Threads : CallLog(t)
  \/ \E t \in Threads, lv \in Levels : CallEnabled(t, lv)

FacadeSpec == InitAnyLevel /\ [][NextFacade]_vars

\* ------------------------------------------------------- derived histories
Spawned(i) == pc[i] # "unspawned"

RECURSIVE Concat(_)
\* The records of a sequence of batches, in order.
Concat(batches) ==
  IF batches = <<>> THEN <<>> ELSE Head(batches) \o Concat(Tail(batches))

\* Every batch a drain returned non-empty (each was passed to send_log).
AllBatches == received["p1"] \o received["p2"]

\* Every record a drain has returned, and every record still buffered.
DrainedSeq == Concat(AllBatches)

BufSeq == buf["L1"] \o buf["L2"]

NoDup(recs) ==
  \A j, k \in 1..Len(recs) : j # k => recs[j].id # recs[k].id

\* The appends made so far: log() call n of thread t is <<t, n>>, the crash
\* record of a fault on p is <<p, 0>>.
Appended ==
  {id \in Threads \X (1..MaxLogs) : id[2] <= Len(calls[id[1]])}
  \cup {<<p, 0>> : p \in {q \in Procs : pc[q] \in {"hook_wait", "dead"} /\ hk[q] # NoLogger}}

IsLog(r) == r.id[2] > 0

RECURSIVE OnlyLogs(_)
\* The records of recs that log() built, in order.
OnlyLogs(recs) ==
  IF recs = <<>> THEN <<>>
  ELSE (IF IsLog(Head(recs)) THEN <<Head(recs)>> ELSE <<>>) \o OnlyLogs(Tail(recs))

\* ------------------------------------------------------------------ claims

\* Every record log() has appended has been passed to send_log of every
\* provider of the sink, once each.
FannedOut ==
  (sink # NoLogger /\ Len(providers[sink]) >= 2) =>
    \A id \in {x \in Appended : x[2] > 0} :
      \A s \in 1..Len(providers[sink]) :
        LET got == Concat(received[providers[sink][s]]) IN
          Cardinality({k \in 1..Len(got) : got[k].id = id}) = 1

\* C1: with two or more providers every record appended by log() eventually
\* reaches send_log of every provider, once per provider (log() calls are
\* finitely many, so from some point on all of them have).
FanOut == []<>FannedOut

\* The crash record of every fault handled by the hook of a Logger that has a
\* provider has been passed to send_log, with level PANIC and the fault's
\* message, file and line.
CrashFlushed ==
  \A p \in Procs :
    (fault[p] # None /\ hk[p] # NoLogger /\ Len(providers[hk[p]]) >= 1) =>
      \E k \in 1..Len(DrainedSeq) :
        /\ DrainedSeq[k].id = <<p, 0>>
        /\ DrainedSeq[k].level = "PANIC"
        /\ DrainedSeq[k].message[2] = fault[p][1].msg
        /\ DrainedSeq[k].file = Some(fault[p][1].file)
        /\ DrainedSeq[k].line = Some(fault[p][1].line)

\* C2: after every fault the hook appends the crash record and some provider's
\* send_log eventually gets a batch that holds it.
CrashFlush == []<>CrashFlushed

\* No thread or task is inside the panic hook.
NoHookRunning ==
  \A p \in Procs : pc[p] \notin {"hook_set", "hook_push", "hook_wait"}

\* C3: the panic hook always eventually returns (faults are finitely many, so
\* from some point on no hook is running).
BoundedCrashWait == []<>NoHookRunning

\* C4: every drain returns the whole buffer and leaves it empty, so no record
\* is returned by two drains and every record appended is either still in a
\* buffer or in exactly one drained batch.
ExclusiveLosslessDrain ==
  /\ NoDup(DrainedSeq \o BufSeq)
  /\ Ids(DrainedSeq \o BufSeq) = Appended

\* C4 witness: two loops of one Logger have each drained a batch, a crash
\* record among them, while appends were going on.
TwoLoopsDrained ==
  /\ Len(providers["L1"]) = 2
  /\ Len(received["p1"]) >= 1 /\ Len(received["p2"]) >= 1
  /\ \E k \in 1..Len(DrainedSeq) : DrainedSeq[k].level = "PANIC"
  /\ Len(buf["L1"]) >= 1

\* The drain results so far, and what the next drain of each buffer returns.
DrainResults == AllBatches \o <<buf["L1"], buf["L2"]>>

\* C5: in every drain result the records of one thread's log() calls are in
\* call order and consecutive, each with the level, message, file and line of
\* its log event; a result made of one thread's calls alone is exactly those
\* calls in order.
SingleThreadOrder ==
  \A d \in 1..Len(DrainResults) :
    LET b == DrainResults[d] IN
      /\ \A k \in 1..Len(b) :
           IsLog(b[k]) =>
             LET e == calls[b[k].id[1]][b[k].id[2]] IN
               /\ b[k].level = <<"ERROR", "WARN", "INFO", "DEBUG", "TRACE">>[e.level]
               /\ b[k].message = e.args
               /\ b[k].file = e.file
               /\ b[k].line = e.line
      /\ \A j, k \in 1..Len(b) :
           (j < k /\ IsLog(b[j]) /\ IsLog(b[k]) /\ b[j].id[1] = b[k].id[1])
             => b[j].id[2] < b[k].id[2]
      /\ \A k \in 1..(Len(b) - 1) :
           (IsLog(b[k]) /\ IsLog(b[k + 1]) /\ b[k].id[1] = b[k + 1].id[1])
             => b[k + 1].id[2] = b[k].id[2] + 1

\* C5 witness: a drain returned three records, all log() calls of one thread.
ThreeCallsDrained ==
  \E d \in 1..Len(AllBatches) :
    /\ Len(AllBatches[d]) = 3
    /\ \A k \in 1..3 : AllBatches[d][k].id = << <<"thread", 1>>, k >>

\* C6: send_log never gets an empty batch: a loop whose drain returned no
\* record goes to sleep without a call.
IdleSilence ==
  /\ \A d \in 1..Len(AllBatches) : Len(AllBatches[d]) > 0
  /\ \A i \in LoopIds : inflight[i] > 0 => Len(messages[i]) > 0

\* C6 witness: a loop has gone through whole cycles and its provider has got
\* no call, while another record was delivered elsewhere.
IdleLoopSilent ==
  \E i \in LoopIds :
    /\ Spawned(i) /\ slept[i] /\ pc[i] = "sleep"
    /\ received[ProviderOf(i)] = <<>>
    /\ Len(DrainedSeq) > 0

\* The log records a single-provider Logger has sent, in send order.
SentLogs(l) == OnlyLogs(Concat(received[providers[l][1]]))

\* Only thread t has called log().
OnlyLogger(t) == \A u \in Threads : u # t => calls[u] = <<>>

\* C7: a loop never starts a drain while a send_log call of an earlier cycle is
\* outstanding and has at most one call outstanding; with one provider and one
\* logging thread the records sent, in send order, are a prefix of the log()
\* calls.
NonOverlappingInOrder ==
  /\ \A i \in LoopIds : inflight[i] <= 1 /\ (pc[i] = "take" => inflight[i] = 0)
  /\ \A l \in Loggers, t \in Threads :
       (Len(providers[l]) = 1 /\ OnlyLogger(t)) =>
         /\ Len(SentLogs(l)) <= Len(calls[t])
         /\ \A k \in 1..Len(SentLogs(l)) : SentLogs(l)[k].id = <<t, k>>

\* C7 witness: one provider, one logging thread, three batches sent one after
\* the other.
ThreeBatchesInOrder ==
  /\ Len(providers["L1"]) = 1
  /\ OnlyLogger(<<"thread", 1>>)
  /\ Len(received["p1"]) = 3
  /\ Len(SentLogs("L1")) = 3

\* C8 as stated: a loop sleeps for the interval before it drains, so no
\* send_log call is made by a loop that has not completed a sleep.
SleepBeforeFirstSend ==
  \A i \in LoopIds :
    (Spawned(i) /\ received[ProviderOf(i)] # <<>>) => slept[i]

\* C8 as amended: a loop drains and sends first and sleeps afterwards. Before
\* its first sleep it has made at most one send_log call; with one provider and
\* one logging thread the records sent, in send order, followed by the records
\* still buffered are exactly the log() calls in call order.
DrainThenSleep ==
  /\ \A i \in LoopIds :
       (Spawned(i) /\ ~slept[i]) => Len(received[ProviderOf(i)]) <= 1
  /\ \A l \in Loggers, t \in Threads :
       (Len(providers[l]) = 1 /\ OnlyLogger(t) /\ sink = l) =>
         LET all == SentLogs(l) \o OnlyLogs(buf[l]) IN
           /\ Len(all) = Len(calls[t])
           /\ \A k \in 1..Len(all) : all[k].id = <<t, k>> /\ all[k].message = calls[t][k].args

\* C8 witness: the single loop has sent [a] alone before ever sleeping, and
\* b and c were logged before its first sleep ended.
FirstSendBeforeSleep ==
  /\ Len(providers["L1"]) = 1
  /\ ~slept[<<"L1", 1>>]
  /\ Len(received["p1"]) = 1
  /\ Len(received["p1"][1]) = 1
  /\ Len(calls[<<"thread", 1>>]) = 3

\* C9: at most one init() returns Ok and its Logger is and stays the
\* registered sink; every other init() returns the already-initialized error
\* and leaves the sink alone.
SingleInitialization ==
  /\ \A l \in Loggers : initResult[l] = "Ok" => sink = l
  /\ \A l \in Loggers :
       initResult[l] = "Err" => (sink # NoLogger /\ sink # l /\ initResult[sink] = "Ok")
  /\ sink = NoLogger => \A l \in Loggers : initResult[l] = "none"

\* C9 witness: a second init() has returned the error and the first Logger is
\* still the sink and keeps receiving log() calls.
SecondInitFailed ==
  \E l \in Loggers :
    /\ initResult[l] = "Err"
    /\ sink # l
    /\ Len(buf[sink]) > 0

\* The batch of the last send_log call of loop i.
LastBatch(i) == received[ProviderOf(i)][Len(received[ProviderOf(i)])]

EnabledComparesThreshold ==
  enabledSeen # None =>
    (enabledSeen[1].result <=> enabledSeen[1].level <= level[sink])

\* A step that changes a crash flag of Logger l is the hook's write of
\* is_panicking, or the write of buffer_emptied_on_panic by a loop of l that
\* read is_panicking = true and then found the buffer empty; a flag that is
\* true stays true.
FlagStep(l) ==
  /\ is_panicking[l] => is_panicking'[l]
  /\ buffer_emptied_on_panic[l] => buffer_emptied_on_panic'[l]
  /\ is_panicking'[l] # is_panicking[l] =>
       \E p \in Procs : /\ pc[p] = "hook_set"
                        /\ pc'[p] = "hook_push"
                        /\ hk[p] = l
  /\ buffer_emptied_on_panic'[l] # buffer_emptied_on_panic[l] =>
       \E i \in LoopsOf(l) : /\ pc[i] = "chk_empty"
                             /\ pc'[i] = "sleep"
                             /\ is_panicking[l]
                             /\ Len(buf[l]) = 0
  /\ buffer_emptied_on_panic'[l] => is_panicking'[l]
  /\ (calls' # calls \/ received' # received) =>
       /\ is_panicking'[l] = is_panicking[l]
       /\ buffer_emptied_on_panic'[l] = buffer_emptied_on_panic[l]

\* C12: is_panicking and buffer_emptied_on_panic start false and only go from
\* false to true; is_panicking is written only by the panic hook,
\* buffer_emptied_on_panic only by a loop that saw is_panicking and an empty
\* buffer, so buffer_emptied_on_panic implies is_panicking; log() and the
\* drain change neither.
CrashStateInvariant ==
  /\ \A l \in Loggers : ~is_panicking[l] /\ ~buffer_emptied_on_panic[l]
  /\ [][\A l \in Loggers : FlagStep(l)]_vars

\* Both flags of a Logger are set and a log() call has appended since.
FlagsSetThenLogged ==
  \E l \in Loggers : /\ is_panicking[l]
                     /\ buffer_emptied_on_panic[l]
                     /\ \E k \in 1..Len(buf[l]) : IsLog(buf[l][k])

Outstanding(i) == IF inflight[i] > 0 THEN messages[i] ELSE <<>>

\* The arguments of the send_log calls of loop i that have ended.
Completed(i) ==
  SubSeq(received[ProviderOf(i)], 1, Len(received[ProviderOf(i)]) - inflight[i])

\* How many times the record of append id occurs in recs.
Occurrences(id, recs) == Cardinality({k \in 1..Len(recs) : recs[k].id = id})

RECURSIVE SumOver(_, _)
\* Sum of f[x] for x in S.
SumOver(f, S) ==
  IF S = {} THEN 0
  ELSE LET x == CHOOSE y \in S : TRUE IN f[x] + SumOver(f, S \ {x})

\* The places that hold the record of append id: the buffers, the outstanding
\* and the ended send_log arguments of every spawned loop.
PlacesHolding(id) ==
  SumOver([l \in Loggers |-> Occurrences(id, buf[l])], Loggers)
  + SumOver([i \in LoopIds |->
               IF Spawned(i)
                 THEN Occurrences(id, Outstanding(i)) + Occurrences(id, Concat(Completed(i)))
                 ELSE 0], LoopIds)

\* How many times the record of append id was passed to send_log, over all
\* providers.
TimesSent(id) ==
  SumOver([q \in Providers |-> Occurrences(id, Concat(received[q]))], Providers)

\* The Logger whose buffer got the record of append id.
BufferOf(id) == IF id[2] > 0 THEN sink ELSE hk[id[1]]

EveryRecordInOnePlace ==
  \A id \in Appended : PlacesHolding(id) = 1 /\ TimesSent(id) <= 1

EveryRecordSentOnce ==
  \A id \in Appended :
    Len(providers[BufferOf(id)]) >= 1 => TimesSent(id) = 1

\* C14: every record appended by log() or by the panic hook is in exactly one
\* place (a buffer, or the argument of one outstanding or ended send_log call)
\* and is passed to send_log at most once over all providers; when the loops
\* run and every send returns, every record of a Logger that has a loop ends
\* up passed to send_log exactly once.
RecordConservation ==
  /\ []EveryRecordInOnePlace
  /\ []<>EveryRecordSentOnce

\* One loop has an ended call, an outstanding call and a non-empty buffer at
\* once, and a crash record is among the appends.
RecordsInThreePlaces ==
  /\ \E i \in LoopIds : /\ Spawned(i)
                        /\ Len(Concat(Completed(i))) >= 1
                        /\ Len(Outstanding(i)) >= 1
                        /\ Len(buf[LoggerOf(i)]) >= 1
  /\ \E p \in Procs : <<p, 0>> \in Appended

\* The hook running on p reads buffer_emptied_on_panic = true and returns.
HookStopsWaiting(p) == pc[p] = "hook_wait" /\ pc'[p] = "dead"

\* The crash record the hook on p appended has left the buffer and the
\* send_log call that carried it has ended.
CrashRecordSent(p) ==
  /\ <<p, 0>> \notin Ids(buf[hk[p]])
  /\ \E i \in LoopIds : Spawned(i) /\ <<p, 0>> \in Ids(Concat(Completed(i)))

\* C15: whenever a hook stops waiting, the crash record that same hook
\* appended is out of the buffer and its send_log call has ended.
DrainConfirmsCrashRecord ==
  [][\A p \in Procs : HookStopsWaiting(p) => CrashRecordSent(p)]_vars

\* C16: under SendsCompleteSpec (loops and hooks scheduled, every send_log
\* returns, appends bounded), a fault on an application thread whose hook is
\* bound to a Logger with at least one provider leads to
\* buffer_emptied_on_panic = true and to the hook's return.
CrashWaitEnds ==
  \A t \in Threads, l \in Loggers :
    (pc[t] = "hook_set" /\ hk[t] = l /\ Len(providers[l]) >= 1)
      ~> (buffer_emptied_on_panic[l] /\ pc[t] = "dead")

\* A hook has returned on an application thread after its crash record was
\* sent, in a run where a loop of that Logger also completed a sleep.
HookReturnedAfterFlush ==
  \E t \in Threads :
    /\ pc[t] = "dead"
    /\ hk[t] # NoLogger
    /\ buffer_emptied_on_panic[hk[t]]
    /\ CrashRecordSent(t)
    /\ \E i \in LoopsOf(hk[t]) : slept[i]

\* C17: a fault on a buffer_loop task (send_log panics) does not hang: the
\* hook running on that task returns.
LoopFaultReturns ==
  \A i \in LoopIds :
    (pc[i] \in {"hook_set", "hook_push", "hook_wait"}) ~> (pc[i] = "dead")

\* C18: an init() that returned SetLoggerError changed nothing: the installed
\* panic hook is still the one bound to the registered Logger and no
\* buffer_loop of the failed Logger was spawned.
FailedInitHasNoEffect ==
  \A l \in Loggers :
    initResult[l] = "Err" =>
      /\ hook = sink
      /\ \A i \in LoopsOf(l) : ~Spawned(i)

====
